---- MODULE Spec2Model ----
(***************************************************************************)
(* Storm alert system: alert triage and delivery pipeline.                 *)
(*                                                                         *)
(*   AlertDeduplicator  src/src/alerts/deduplication.py                    *)
(*   RateLimiter        src/src/middleware/rate_limiter.py                 *)
(*   DeliveryManager    src/src/notifications/delivery.py, channels.py     *)
(*   AlertPrioritizer   src/src/alerts/prioritizer.py                      *)
(*   BatchProcessor     src/src/processing/optimizer.py                    *)
(*   GeoIndex           src/src/processing/optimizer.py                    *)
(*                                                                         *)
(* The components share no state; each has its own specification           *)
(* over the common variable tuple.                                         *)
(***************************************************************************)
EXTENDS Integers, Sequences, FiniteSets, TLC

VARIABLES
    \* ---- AlertDeduplicator ----
    redis_url,        \* self.redis_url is set (TRUE) or None (FALSE)
    redis_installed,  \* environment: `import redis` succeeds
    redis_client,     \* self._redis_client is not None
    redis_store,      \* the shared store: fingerprint key -> expiry hour, 0 = no entry
    local_cache,      \* self._local_cache
    stats,            \* self._stats
    dd_now,           \* wall clock of the deduplicator's host, in hours
    dd_recorded,      \* history: key -> hour of the latest call that recorded it (returned False), -1 = never
    dd_last,          \* history: the latest is_duplicate call and its result
    dd_returned,      \* history: number of is_duplicate calls and of those that returned True
    \* ---- RateLimiter ----
    config,           \* self.config (RateLimitConfig)
    buckets,          \* self._buckets: key -> TokenBucket
    blocked,          \* self._blocked: key -> block_until
    rl_now,           \* time.time(), in clock ticks
    rl_hist,          \* history: key -> creation tick of its bucket and checks made since
    rl_last,          \* history: the latest check or reset and its result
    \* ---- DeliveryManager ----
    channels,         \* self._channels: name -> NotificationChannel
    pc,               \* position of the deliver call: idle, loop, sending, done, raised
    task,             \* deliver's argument
    index,            \* deliver: position of the for loop in task.channels
    channel,          \* deliver: the local variable channel (the object looked up)
    results,          \* deliver: the local list results
    report,           \* the DeliveryReport returned by deliver
    dl_log,           \* history: per loop iteration, the calls made on the channel
    \* ---- DeliveryManager: the delivery queue and its consumer ----
    queue,            \* self._queue (asyncio.Queue), oldest task first
    running,          \* self._running
    consumer,         \* position of process_queue: not_started, test, get, deliver, returned
    q_enqueued,       \* history: the tasks put by enqueue, in order
    q_taken,          \* history: the tasks process_queue handed to deliver, in order
    q_stopped,        \* history: stop() has been called
    q_errors,         \* history: number of "Queue processing error" log entries
    \* ---- _create_fingerprint as a function of two records ----
    fp_a,             \* the first alert record
    fp_b,             \* the second alert record
    fp_out,           \* the fingerprints computed for fp_a and fp_b
    \* ---- AlertPrioritizer (stateless) ----
    pr_last,          \* the latest calculate_priority / prioritize_batch call and what it returned
    \* ---- BatchProcessor ----
    bp_config,        \* self.batch_size, self.flush_interval, self.process_func is set
    buffer,           \* self._buffer
    last_flush,       \* self._last_flush
    lock,             \* self._lock: the producer holding it, or Unlocked
    waiters,          \* self._lock._waiters: producers suspended in acquire, oldest first
    bp_pc,            \* per producer, the position of its add call: idle, acquire, handler
    bp_item,          \* per producer, the argument of its add call (0 when idle)
    batch,            \* _flush: the local variable batch while the handler is suspended
    bp_now,           \* time.time(), in clock ticks
    bp_calls,         \* history: number of add calls made
    bp_added,         \* history: the items appended to the buffer, in order
    bp_handled,       \* history: the batches passed to process_func, in order
    bp_faults,        \* history: number of add calls that raised
    bp_last,          \* history: the latest append and the flush decision taken after it
    \* ---- GeoIndex ----
    grid,             \* self._grid: cell -> list of items
    geo_inserted,     \* history: the inserts made since the index was last empty
    geo_last,         \* history: the latest insert, query_radius or clear and its result
    \* ---- several AlertDeduplicator processes on one shared store, one fingerprint ----
    race_store,       \* the shared store: expiry hour of the fingerprint's key, 0 = no entry
    race_local,       \* per process, the key is in its self._local_cache
    race_pc,          \* per process, the position of its is_duplicate call: idle, setex
    race_call,        \* history: per process, whether its call in progress came after all earlier ones
    race_now,         \* wall clock, in hours
    race_first,       \* history: hour at which the first call started, -1 = none yet
    race_results      \* history: the completed calls and their results, in order of completion

dd_vars == <<redis_url, redis_installed, redis_client, redis_store, local_cache,
             stats, dd_now, dd_recorded, dd_last, dd_returned>>

rl_vars == <<config, buckets, blocked, rl_now, rl_hist, rl_last>>

dl_vars == <<channels, pc, task, index, channel, results, report, dl_log>>

q_vars == <<queue, running, consumer, q_enqueued, q_taken, q_stopped, q_errors>>

fp_vars == <<fp_a, fp_b, fp_out>>

pr_vars == <<pr_last>>

bp_vars == <<bp_config, buffer, last_flush, lock, waiters, bp_pc, bp_item, batch,
             bp_now, bp_calls, bp_added, bp_handled, bp_faults, bp_last>>

geo_vars == <<grid, geo_inserted, geo_last>>

race_vars == <<race_store, race_local, race_pc, race_call, race_now, race_first,
               race_results>>

vars == <<dd_vars, rl_vars, dl_vars, q_vars, fp_vars, pr_vars, bp_vars, geo_vars, race_vars>>

None == "None"

Min(a, b) == IF a <= b THEN a ELSE b

Abs(x) == IF x < 0 THEN -x ELSE x

(***************************************************************************)
(* AlertDeduplicator                                                       *)
(***************************************************************************)

BUCKET_MINUTES == 15

CACHE_TTL_HOURS == 24

\* Bounds of the deduplicator model.
MaxDedupCalls == 3      \* is_duplicate calls per behaviour
DedupTickHours == 12    \* the clock advances in steps of this many hours
MaxDedupTicks == 3      \* number of clock steps per behaviour

\* Alert attributes: latitude and longitude in thousandths of a degree,
\* timestamp in minutes since midnight.
AlertLatitudes == {35000, 35004}
AlertTimestamps == {727, 730, 736}

Alerts ==
    [type : {"tornado"}, severity : {"extreme"}, latitude : AlertLatitudes,
     longitude : {-97000}, timestamp : AlertTimestamps]

\* f"{x:.2f}" cut off after the second decimal instead of rounded.
Format2f_truncate(m) == [neg |-> m < 0, cents |-> Abs(m) \div 10]

\* f"{x:.2f}" for x given in thousandths: the sign and the hundredths after
\* rounding to nearest (the inputs used here have no ties).
Format2f(m) == [neg |-> m < 0, cents |-> (Abs(m) + 5) \div 10]

\* _create_fingerprint followed by AlertFingerprint.to_string.  The 8-digit md5
\* prefix of the location string is represented by the location string itself.
create_fingerprint(alert) ==
    [alert_type |-> alert.type,
     location_hash |-> <<Format2f(alert.latitude), Format2f(alert.longitude)>>,
     severity |-> alert.severity,
     time_bucket |-> (alert.timestamp \div BUCKET_MINUTES) * BUCKET_MINUTES]

Fingerprints == {create_fingerprint(a) : a \in Alerts}

\* redis.exists(key) on the shared store at hour `now`.
redis_exists(store, key, now) == store[key] > now

\* Outcomes of one call to the shared store.
RedisOutcomes == {"ok", "raise"}

DedupInit ==
    /\ redis_url \in BOOLEAN
    /\ redis_installed \in BOOLEAN
    /\ redis_client = FALSE
    /\ redis_store = [k \in Fingerprints |-> 0]
    /\ local_cache = {}
    /\ stats = [processed |-> 0, duplicates |-> 0]
    /\ dd_now = 0
    /\ dd_recorded = [k \in Fingerprints |-> -1]
    /\ dd_last = [valid |-> FALSE]
    /\ dd_returned = [calls |-> 0, true |-> 0]

\* _get_redis: creates the client on first use when a URL is configured and
\* the redis module can be imported.
get_redis_client == redis_client \/ (redis_url /\ redis_installed)

\* The in-process lookup without the self._local_cache.add(key) line.
local_lookup_no_add(key, result) ==
    /\ result = (key \in local_cache)
    /\ local_cache' = local_cache

\* The in-process part of is_duplicate (lines 91-96).
local_lookup(key, result) ==
    /\ result = (key \in local_cache)
    /\ local_cache' = local_cache \cup {key}

\* The counters when only the processed counter is kept.
stats_after_processed_only(st, result) == [st EXCEPT !.processed = @ + 1]

\* self._stats after a call that returns `result`.
stats_after(st, result) ==
    [processed |-> st.processed + 1,
     duplicates |-> st.duplicates + (IF result THEN 1 ELSE 0)]

\* The duplicate_rate property, as the fraction <<numerator, denominator>>.
duplicate_rate(st) ==
    IF st.processed = 0 THEN <<0, 1>> ELSE <<st.duplicates, st.processed>>

\* is_duplicate(alert); exists_outcome and setex_outcome are what the shared
\* store does on this call's exists and setex requests.
is_duplicate(alert, exists_outcome, setex_outcome) ==
    LET key == create_fingerprint(alert) IN
    /\ stats.processed < MaxDedupCalls
    /\ redis_client' = get_redis_client
    /\ \E result \in BOOLEAN :
        /\ IF get_redis_client
           THEN IF exists_outcome = "ok"
                THEN IF redis_exists(redis_store, key, dd_now)
                     THEN /\ result = TRUE
                          /\ UNCHANGED <<redis_store, local_cache>>
                     ELSE IF setex_outcome = "ok"
                          THEN /\ redis_store' = [redis_store EXCEPT ![key] = dd_now + CACHE_TTL_HOURS]
                               /\ result = FALSE
                               /\ UNCHANGED local_cache
                          ELSE /\ local_lookup(key, result)
                               /\ UNCHANGED redis_store
                ELSE /\ local_lookup(key, result)
                     /\ UNCHANGED redis_store
           ELSE /\ local_lookup(key, result)
                /\ UNCHANGED redis_store
        /\ stats' = stats_after(stats, result)
        /\ dd_returned' = [calls |-> dd_returned.calls + 1,
                           true |-> dd_returned.true + (IF result THEN 1 ELSE 0)]
        /\ dd_last' = [valid |-> TRUE, key |-> key, result |-> result, at |-> dd_now,
                       recorded |-> dd_recorded[key],
                       alert |-> alert,
                       has_prev |-> dd_last.valid,
                       prev_alert |-> IF dd_last.valid THEN dd_last.alert ELSE alert,
                       client |-> get_redis_client,
                       store_said |-> IF ~get_redis_client THEN "unasked"
                                      ELSE IF exists_outcome # "ok" THEN "failed"
                                      ELSE IF redis_exists(redis_store, key, dd_now)
                                           THEN "present" ELSE "absent",
                       setex |-> IF get_redis_client /\ exists_outcome = "ok"
                                    /\ ~redis_exists(redis_store, key, dd_now)
                                 THEN setex_outcome ELSE "unasked",
                       in_cache |-> key \in local_cache,
                       shared |-> get_redis_client /\ exists_outcome = "ok"
                                  /\ (redis_exists(redis_store, key, dd_now) \/ setex_outcome = "ok")]
        /\ dd_recorded' = IF result THEN dd_recorded
                          ELSE [dd_recorded EXCEPT ![key] = dd_now]
    /\ UNCHANGED <<redis_url, redis_installed, dd_now>>

\* clear_cache
clear_cache ==
    /\ local_cache # {}
    /\ local_cache' = {}
    \* a recording that lived only in the cleared set is forgotten
    /\ dd_recorded' = [k \in Fingerprints |->
                         IF k \in local_cache /\ ~redis_exists(redis_store, k, dd_now)
                         THEN -1 ELSE dd_recorded[k]]
    /\ UNCHANGED <<redis_url, redis_installed, redis_client, redis_store, stats,
                   dd_now, dd_last, dd_returned>>

\* The wall clock advances.
DedupTick ==
    /\ dd_now < MaxDedupTicks * DedupTickHours
    /\ dd_now' = dd_now + DedupTickHours
    /\ UNCHANGED <<redis_url, redis_installed, redis_client, redis_store, local_cache,
                   stats, dd_recorded, dd_last, dd_returned>>

DedupStep ==
    \/ \E a \in Alerts, eo \in RedisOutcomes, so \in RedisOutcomes : is_duplicate(a, eo, so)
    \/ clear_cache
    \/ DedupTick


(***************************************************************************)
(* RateLimiter                                                             *)
(***************************************************************************)

\* Bounds of the rate limiter model.
TicksPerSec == 1        \* clock resolution: ticks per second
MaxBurst == 2           \* burst_size ranges over 1..MaxBurst
MaxBlockSeconds == 2    \* block_duration_seconds ranges over 1..MaxBlockSeconds
MaxRateTicks == 4       \* the clock stops after this many ticks

RateKeys == {"k1", "k2"}

RpmChoices == {30, 60}

\* Token counts are kept in units of 1/TokenUnit token, so that the refill of
\* one tick at requests_per_minute/60 tokens per second is a whole number.
TokenUnit == 60 * TicksPerSec

RateLimitConfigs ==
    [requests_per_minute : RpmChoices, burst_size : 1..MaxBurst,
     block_duration_seconds : 1..MaxBlockSeconds]

\* A bucket that starts empty instead of full.
TokenBucket_empty(rate, capacity, now) ==
    [rate |-> rate, capacity |-> capacity, tokens |-> 0, last_update |-> now]

\* TokenBucket.__init__(rate, capacity) at time now; rate is kept as
\* requests_per_minute (tokens per 60 seconds).
TokenBucket(rate, capacity, now) ==
    [rate |-> rate, capacity |-> capacity, tokens |-> capacity * TokenUnit, last_update |-> now]

\* A refill that forgets the capacity.
refill_uncapped(b, now) ==
    [b EXCEPT !.tokens = b.tokens + (now - b.last_update) * b.rate,
              !.last_update = now]

\* TokenBucket._refill at time now.
refill(b, now) ==
    [b EXCEPT !.tokens = Min(b.capacity * TokenUnit, b.tokens + (now - b.last_update) * b.rate),
              !.last_update = now]

\* A consume whose decrement is lost.
consume_lost_update(b, now) ==
    LET r == refill(b, now) IN
    IF r.tokens >= TokenUnit
    THEN [ok |-> TRUE, bucket |-> r]
    ELSE [ok |-> FALSE, bucket |-> r]

\* TokenBucket.consume(1) at time now: the result and the bucket afterwards.
consume(b, now) ==
    LET r == refill(b, now) IN
    IF r.tokens >= TokenUnit
    THEN [ok |-> TRUE, bucket |-> [r EXCEPT !.tokens = r.tokens - TokenUnit]]
    ELSE [ok |-> FALSE, bucket |-> r]

\* TokenBucket.tokens (property): int(self._tokens) after a refill.
tokens_of(b, now) == refill(b, now).tokens \div TokenUnit

\* RateLimiter._get_bucket(key)
get_bucket(key) ==
    IF key \in DOMAIN buckets THEN buckets[key]
    ELSE TokenBucket(config.requests_per_minute, config.burst_size, rl_now)

\* del d[key]
Without(d, key) == [x \in DOMAIN d \ {key} |-> d[x]]

\* d[key] = value
With(d, key, value) == [x \in DOMAIN d \cup {key} |-> IF x = key THEN value ELSE d[x]]

\* A block that gives way as soon as the bucket holds a token again.
is_blocked_soft(key, now) ==
    /\ key \in DOMAIN blocked
    /\ now < blocked[key]
    /\ buckets[key].tokens + (now - buckets[key].last_update) * buckets[key].rate < TokenUnit

\* A block that still holds at the instant block_until.
is_blocked_inclusive(key, now) == key \in DOMAIN blocked /\ now <= blocked[key]

\* the key is in self._blocked and its block has not expired at time now
\* (check, lines 81-83)
is_blocked(key, now) == key \in DOMAIN blocked /\ now < blocked[key]

RateInit ==
    /\ config \in RateLimitConfigs
    /\ buckets = <<>>
    /\ blocked = <<>>
    /\ rl_now = 0
    /\ rl_hist = [k \in RateKeys |-> [created |-> -1, checks |-> 0]]
    /\ rl_last = [op |-> "none"]

\* RateLimiter.check(key)
check(key) ==
    LET fresh == key \notin DOMAIN buckets
        hist == IF fresh THEN [created |-> rl_now, checks |-> 1]
                ELSE [rl_hist[key] EXCEPT !.checks = Min(@ + 1, MaxBurst + 2)]
        after_reset == rl_last.op = "reset" /\ rl_last.key = key
        ghost == [op |-> "check", key |-> key, at |-> rl_now, fresh |-> fresh,
                  streak |-> IF hist.created = rl_now THEN hist.checks ELSE 0,
                  had_block |-> key \in DOMAIN blocked,
                  expired_at |-> IF key \in DOMAIN blocked THEN blocked[key] ELSE -1,
                  capped |-> ~fresh /\ buckets[key].tokens
                                 + (rl_now - buckets[key].last_update) * buckets[key].rate
                                 > buckets[key].capacity * TokenUnit,
                  after_reset |-> after_reset,
                  reset_cleared_block |-> after_reset /\ rl_last.had_block]
    IN
    /\ rl_hist' = [rl_hist EXCEPT ![key] = hist]
    /\ IF is_blocked(key, rl_now)
       THEN /\ rl_last' = ghost @@ [allowed |-> FALSE, remaining |-> 0,
                                    reset_at |-> blocked[key],
                                    retry_after |-> (blocked[key] - rl_now) \div TicksPerSec,
                                    by_block |-> TRUE]
            /\ UNCHANGED <<buckets, blocked>>
       ELSE LET unblocked == Without(blocked, key)
                c == consume(get_bucket(key), rl_now)
            IN
            /\ buckets' = With(buckets, key, refill(c.bucket, rl_now))
            /\ blocked' = IF c.ok THEN unblocked
                          ELSE With(unblocked, key,
                                    rl_now + config.block_duration_seconds * TicksPerSec)
            /\ rl_last' = ghost @@ [allowed |-> c.ok,
                                    remaining |-> tokens_of(c.bucket, rl_now),
                                    reset_at |-> rl_now + 60 * TicksPerSec,
                                    retry_after |-> IF c.ok THEN -1 ELSE 60,
                                    by_block |-> FALSE]
    /\ UNCHANGED <<config, rl_now>>

\* A reset that leaves the block in place.
reset_bucket_only(key) ==
    /\ buckets' = Without(buckets, key)
    /\ blocked' = blocked
    /\ rl_hist' = [rl_hist EXCEPT ![key] = [created |-> -1, checks |-> 0]]
    /\ rl_last' = [op |-> "reset", key |-> key, at |-> rl_now,
                   had_block |-> key \in DOMAIN blocked /\ rl_now < blocked[key],
                   had_bucket |-> key \in DOMAIN buckets]
    /\ UNCHANGED <<config, rl_now>>

\* RateLimiter.reset(key)
reset(key) ==
    /\ buckets' = Without(buckets, key)
    /\ blocked' = Without(blocked, key)
    /\ rl_hist' = [rl_hist EXCEPT ![key] = [created |-> -1, checks |-> 0]]
    /\ rl_last' = [op |-> "reset", key |-> key, at |-> rl_now,
                   had_block |-> is_blocked(key, rl_now),
                   had_bucket |-> key \in DOMAIN buckets]
    /\ UNCHANGED <<config, rl_now>>

\* The wall clock advances by one tick.  It never goes back, and the reads of
\* time.time() made within one call of check all return the same tick.
RateTick ==
    /\ rl_now < MaxRateTicks
    /\ rl_now' = rl_now + 1
    /\ UNCHANGED <<config, buckets, blocked, rl_hist, rl_last>>

RateNext ==
    \/ \E k \in RateKeys : check(k)
    \/ \E k \in RateKeys : reset(k)
    \/ RateTick


(***************************************************************************)
(* Notification channels and DeliveryManager                               *)
(***************************************************************************)

\* Bound of the delivery model.
MaxChannels == 2        \* longest task.channels

\* Channel names a task may list; "push" is never registered.
ChannelNames == {"email", "sms", "webhook", "push"}

\* Recipients, as the sequence of their characters; a recipient that is not a
\* string (None) has is_str = FALSE.
Chars(cs) == [is_str |-> TRUE, chars |-> cs]

NotValid == Chars(<<"n", "o", "t", "-", "v", "a", "l", "i", "d">>)
Address == Chars(<<"a", "@", "b", ".", "c", "o">>)
Number == Chars(<<"+", "1", "5", "5", "5", "0", "1", "0", "0", "9", "9">>)
Url == Chars(<<"h", "t", "t", "p", ":", "/", "/", "h">>)
Empty == Chars(<<>>)
NoRecipient == [is_str |-> FALSE, chars |-> <<>>]

Recipients == {NotValid, Address, Number, Url, Empty, NoRecipient}

\* c in s
Contains(s, c) == \E i \in 1..Len(s) : s[i] = c

\* s.startswith(prefix)
StartsWith(s, prefix) ==
    Len(s) >= Len(prefix) /\ SubSeq(s, 1, Len(prefix)) = prefix

\* The channel objects that can be registered.
EmailChannel == [name |-> "email", kind |-> "email", default_url |-> FALSE]
SMSChannel == [name |-> "sms", kind |-> "sms", default_url |-> FALSE]
WebhookChannel(has_default) == [name |-> "webhook", kind |-> "webhook", default_url |-> has_default]

ChannelObjects == {EmailChannel, SMSChannel, WebhookChannel(FALSE), WebhookChannel(TRUE)}

\* A validation that accepts every string.
validate_recipient_any(ch, recipient) ==
    IF ~recipient.is_str THEN "raise" ELSE "true"

\* channel.validate_recipient(recipient): "true", "false", or "raise" when the
\* membership test or startswith is applied to a value that is not a string.
validate_recipient(ch, recipient) ==
    IF ~recipient.is_str THEN "raise"
    ELSE IF ch.kind = "email"
         THEN IF Contains(recipient.chars, "@") /\ Contains(recipient.chars, ".")
              THEN "true" ELSE "false"
    ELSE IF ch.kind = "sms"
         THEN IF StartsWith(recipient.chars, <<"+">>) /\ Len(recipient.chars) >= 10
              THEN "true" ELSE "false"
    ELSE IF StartsWith(recipient.chars, <<"h", "t", "t", "p">>)
         THEN "true" ELSE "false"

\* DeliveryResult(channel, success, message_id, error)
DeliveryResult(ch, success, message_id, error) ==
    [channel |-> ch, success |-> success, message_id |-> message_id, error |-> error]

\* The message id a channel's send assigns.
message_id_of(ch) ==
    IF ch.kind = "email" THEN "msg-001"
    ELSE IF ch.kind = "sms" THEN "sms-001"
    ELSE "wh-001"

\* What a transport can do on one send: complete with a success result (as the
\* three channels of channels.py do), complete with a failure result, or raise.
SendOutcomes == {"ok", "fail", "raise"}

\* The result channel.send returns when it completes.
send(ch, outcome) ==
    IF outcome = "ok"
    THEN DeliveryResult(ch.name, TRUE, message_id_of(ch), None)
    ELSE DeliveryResult(ch.name, FALSE, None, "rejected by transport")

\* str(e) of the fault a send raises.
SendFault == "transport down"

\* A loop that gives up after a failed entry.
continue_loop_break(i, n) == n + 1

\* continue: the loop goes on with the next entry of task.channels.
continue_loop(i, n) == i + 1

ChannelSeqs == UNION {[1..n -> ChannelNames] : n \in 0..MaxChannels}

DeliveryTasks == [id : {"t1"}, recipient : Recipients, channels : ChannelSeqs]

NoTask == [id |-> None, recipient |-> Empty, channels |-> <<>>]

NoReport == [task_id |-> None, results |-> <<>>, total_channels |-> 0,
             successful |-> 0, failed |-> 0]

\* sum(1 for r in results if r.success)
count_successful(rs) == Cardinality({i \in 1..Len(rs) : rs[i].success})

\* A report that counts every result as a success.
DeliveryReport_count_all(t, rs) ==
    [task_id |-> t.id, results |-> rs, total_channels |-> Len(t.channels),
     successful |-> Len(rs),
     failed |-> Len(t.channels) - Len(rs)]

\* The DeliveryReport built at the end of deliver (lines 80-89).
DeliveryReport(t, rs) ==
    [task_id |-> t.id, results |-> rs, total_channels |-> Len(t.channels),
     successful |-> count_successful(rs),
     failed |-> Len(t.channels) - count_successful(rs)]

DeliverInit ==
    /\ channels = <<>>
    /\ pc = "idle"
    /\ task = NoTask
    /\ index = 0
    /\ channel = None
    /\ results = <<>>
    /\ report = NoReport
    /\ dl_log = <<>>

\* register_channel(channel)
register_channel(ch) ==
    /\ channels' = With(channels, ch.name, ch)
    /\ UNCHANGED <<pc, task, index, channel, results, report, dl_log>>

\* deliver(task) is called: results = [] and the loop starts.
deliver(t) ==
    /\ pc \in {"idle", "done", "raised"}
    /\ pc' = "loop"
    /\ task' = t
    /\ index' = 1
    /\ channel' = None
    /\ results' = <<>>
    /\ report' = NoReport
    /\ dl_log' = <<>>
    /\ UNCHANGED channels

\* One iteration of the for loop up to the await of channel.send: the lookup
\* in self._channels and the validation of the recipient.
deliver_channel ==
    /\ pc = "loop"
    /\ index <= Len(task.channels)
    /\ LET channel_name == task.channels[index]
           registered == channel_name \in DOMAIN channels
           entry == [channel |-> channel_name, registered |-> registered,
                     validate_calls |-> 0, send_calls |-> 0,
                     valid |-> "none", outcome |-> "none"]
       IN
       IF ~registered
       THEN /\ channel' = None
            /\ results' = Append(results,
                                 DeliveryResult(channel_name, FALSE, None, "Channel not found"))
            /\ index' = continue_loop(index, Len(task.channels))
            /\ dl_log' = Append(dl_log, entry)
            /\ UNCHANGED pc
       ELSE LET valid == validate_recipient(channels[channel_name], task.recipient)
                called == [entry EXCEPT !.validate_calls = 1, !.valid = valid]
            IN
            /\ channel' = channels[channel_name]
            /\ dl_log' = Append(dl_log, called)
            /\ IF valid = "raise"
               THEN /\ pc' = "raised"
                    /\ UNCHANGED <<index, results>>
               ELSE IF valid = "false"
               THEN /\ results' = Append(results,
                                         DeliveryResult(channel_name, FALSE, None, "Invalid recipient"))
                    /\ index' = continue_loop(index, Len(task.channels))
                    /\ UNCHANGED pc
               ELSE /\ pc' = "sending"
                    /\ UNCHANGED <<index, results>>
    /\ UNCHANGED <<channels, task, report>>

\* The awaited channel.send finishes: its result, or the failure result made
\* from the fault it raised, is appended.
deliver_send(outcome) ==
    /\ pc = "sending"
    /\ LET channel_name == task.channels[index] IN
       /\ results' = Append(results,
                            IF outcome = "raise"
                            THEN DeliveryResult(channel_name, FALSE, None, SendFault)
                            ELSE send(channel, outcome))
       /\ dl_log' = [dl_log EXCEPT ![index].send_calls = @ + 1, ![index].outcome = outcome]
    /\ index' = index + 1
    /\ pc' = "loop"
    /\ UNCHANGED <<channels, task, channel, report>>

\* The loop is over: the report is built and returned.
deliver_return ==
    /\ pc = "loop"
    /\ index > Len(task.channels)
    /\ report' = DeliveryReport(task, results)
    /\ pc' = "done"
    /\ UNCHANGED <<channels, task, index, channel, results, dl_log>>

DeliverStep ==
    \/ \E c \in ChannelObjects : register_channel(c)
    \/ \E t \in DeliveryTasks : deliver(t)
    \/ deliver_channel
    \/ \E o \in SendOutcomes : deliver_send(o)
    \/ deliver_return


(***************************************************************************)
(* DeliveryManager: enqueue, process_queue, stop                           *)
(***************************************************************************)

\* Bound of the queue model.
MaxEnqueued == 3        \* tasks put on the queue per behaviour

Producers == {"p1", "p2"}

\* What the producers submit: a task that can be delivered and one whose
\* delivery raises when the email channel is registered (no recipient).
QueuePayloads ==
    {[recipient |-> Address, channels |-> <<"email">>],
     [recipient |-> NoRecipient, channels |-> <<"email">>]}

MaxAttemptsChoices == {0, 3}

\* DeliveryTask(id, payload, channels, attempts=0, max_attempts); the id is
\* the producer and the number of the task among that producer's tasks.
DeliveryTask(producer, n, payload, max_attempts) ==
    [id |-> <<producer, n>>, recipient |-> payload.recipient, channels |-> payload.channels,
     attempts |-> 0, max_attempts |-> max_attempts]

\* Number of tasks in a sequence that were submitted by a producer.
submitted_by(ts, producer) == Cardinality({i \in 1..Len(ts) : ts[i].id[1] = producer})

\* A queue that hands out the newest task first.
queue_get_newest(q) == [item |-> q[Len(q)], rest |-> SubSeq(q, 1, Len(q) - 1)]

\* asyncio.Queue.get on a queue that is not empty: the oldest task.
queue_get(q) == [item |-> Head(q), rest |-> Tail(q)]

QueueInit ==
    /\ queue = <<>>
    /\ running = FALSE
    /\ consumer = "not_started"
    /\ q_enqueued = <<>>
    /\ q_taken = <<>>
    /\ q_stopped = FALSE
    /\ q_errors = 0

\* enqueue(task): the queue is unbounded, so put never waits.
enqueue(t) ==
    /\ Len(q_enqueued) < MaxEnqueued
    /\ queue' = Append(queue, t)
    /\ q_enqueued' = Append(q_enqueued, t)
    /\ UNCHANGED <<running, consumer, q_taken, q_stopped, q_errors>>
    /\ UNCHANGED dl_vars

\* process_queue is entered: self._running = True.
process_queue ==
    /\ consumer = "not_started"
    /\ running' = TRUE
    /\ consumer' = "test"
    /\ UNCHANGED <<queue, q_enqueued, q_taken, q_stopped, q_errors>>
    /\ UNCHANGED dl_vars

\* while self._running
process_queue_test ==
    /\ consumer = "test"
    /\ consumer' = IF running THEN "get" ELSE "returned"
    /\ UNCHANGED <<queue, running, q_enqueued, q_taken, q_stopped, q_errors>>
    /\ UNCHANGED dl_vars

\* wait_for(self._queue.get(), 1.0) returns a task and self.deliver(task) is
\* called.
process_queue_get ==
    /\ consumer = "get"
    /\ queue # <<>>
    /\ LET g == queue_get(queue) IN
        /\ deliver(g.item)
        /\ queue' = g.rest
        /\ q_taken' = Append(q_taken, g.item)
    /\ consumer' = "deliver"
    /\ UNCHANGED <<running, q_enqueued, q_stopped, q_errors>>

\* wait_for times out on the empty queue: TimeoutError, continue.
process_queue_timeout ==
    /\ consumer = "get"
    /\ queue = <<>>
    /\ consumer' = "test"
    /\ UNCHANGED <<queue, running, q_enqueued, q_taken, q_stopped, q_errors>>
    /\ UNCHANGED dl_vars

\* The steps of the awaited deliver call.
process_queue_deliver ==
    /\ consumer = "deliver"
    /\ \/ deliver_channel
       \/ \E o \in SendOutcomes : deliver_send(o)
       \/ deliver_return
    /\ UNCHANGED q_vars

\* deliver returned its report: the "Delivered" log line, next iteration.
process_queue_delivered ==
    /\ consumer = "deliver"
    /\ pc = "done"
    /\ pc' = "idle"
    /\ consumer' = "test"
    /\ UNCHANGED <<queue, running, q_enqueued, q_taken, q_stopped, q_errors>>
    /\ UNCHANGED <<channels, task, index, channel, results, report, dl_log>>

\* A consumer that gives up when a delivery raises.
process_queue_error_exit ==
    /\ consumer = "deliver"
    /\ pc = "raised"
    /\ pc' = "idle"
    /\ consumer' = "returned"
    /\ q_errors' = q_errors + 1
    /\ UNCHANGED <<queue, running, q_enqueued, q_taken, q_stopped>>
    /\ UNCHANGED <<channels, task, index, channel, results, report, dl_log>>

\* deliver raised: except Exception, the "Queue processing error" log line,
\* next iteration.
process_queue_error ==
    /\ consumer = "deliver"
    /\ pc = "raised"
    /\ pc' = "idle"
    /\ consumer' = "test"
    /\ q_errors' = q_errors + 1
    /\ UNCHANGED <<queue, running, q_enqueued, q_taken, q_stopped>>
    /\ UNCHANGED <<channels, task, index, channel, results, report, dl_log>>

\* A stop that cancels the consumer's task while it awaits a delivery.
stop_cancelling ==
    /\ running' = FALSE
    /\ q_stopped' = TRUE
    /\ consumer' = IF consumer = "deliver" THEN "returned" ELSE consumer
    /\ pc' = IF consumer = "deliver" THEN "idle" ELSE pc
    /\ UNCHANGED <<queue, q_enqueued, q_taken, q_errors>>
    /\ UNCHANGED <<channels, task, index, channel, results, report, dl_log>>

\* stop()
stop ==
    /\ running' = FALSE
    /\ q_stopped' = TRUE
    /\ UNCHANGED <<queue, consumer, q_enqueued, q_taken, q_errors>>
    /\ UNCHANGED dl_vars

QueueStep ==
    \/ register_channel(EmailChannel) /\ UNCHANGED q_vars
    \/ \E p \in Producers, w \in QueuePayloads, m \in MaxAttemptsChoices :
           enqueue(DeliveryTask(p, submitted_by(q_enqueued, p) + 1, w, m))
    \/ process_queue
    \/ process_queue_test
    \/ process_queue_get
    \/ process_queue_timeout
    \/ process_queue_deliver
    \/ process_queue_delivered
    \/ process_queue_error
    \/ stop


(***************************************************************************)
(* _create_fingerprint on pairs of records, src/src/alerts/deduplication.py *)
(***************************************************************************)

\* Coordinates in thousandths of a degree, on both sides of a rounding
\* boundary (35.004 / 35.006), of a grid point (35.006 / 35.014) and of zero.
JitterLatitudes == {-4, 4, 35000, 35004, 35006, 35014}
JitterLongitudes == {-97004, -97000, -96996}

JitterAlerts ==
    [type : {"tornado", "flood"}, severity : {"extreme"}, latitude : JitterLatitudes,
     longitude : JitterLongitudes, timestamp : AlertTimestamps]

NoFingerprints == [done |-> FALSE]

FingerprintInit ==
    /\ fp_a \in JitterAlerts
    /\ fp_b \in JitterAlerts
    /\ fp_out = NoFingerprints

FingerprintParked ==
    /\ fp_a = [type |-> "tornado", severity |-> "extreme", latitude |-> 35000,
               longitude |-> -97000, timestamp |-> 727]
    /\ fp_b = fp_a
    /\ fp_out = NoFingerprints

\* _create_fingerprint applied to each of the two records.
fingerprint_pair ==
    /\ ~fp_out.done
    /\ fp_out' = [done |-> TRUE, a |-> create_fingerprint(fp_a),
                  b |-> create_fingerprint(fp_b)]
    /\ UNCHANGED <<fp_a, fp_b>>

FingerprintStep == fingerprint_pair


(***************************************************************************)
(* AlertPrioritizer, src/src/alerts/prioritizer.py                         *)
(*                                                                         *)
(* Features are fixed-point numbers in units of 1/FeatureUnit, weights in  *)
(* hundredths, scores in units of 1/ScoreUnit; the arithmetic is exact.    *)
(***************************************************************************)

MaxBatch == 3

FeatureUnit == 10000
WeightUnit == 100
ScoreUnit == FeatureUnit * WeightUnit

\* Optional[float]: <<>> is None, <<x>> is the value x.
Absent == <<>>

Severities == {"minor", "severe", "Extreme", "catastrophic"}
Populations == {0, 500000, 4000000}
InfrastructureScores == {0, 10000}
WindSpeeds == {Absent, <<150>>, <<200>>, <<400>>}
Precipitations == {Absent, <<250>>, <<1000>>}

WeatherAlert(id, severity, population, infrastructure, wind, precipitation) ==
    [id |-> id, severity |-> severity, population_affected |-> population,
     infrastructure_score |-> infrastructure, wind_speed |-> wind,
     precipitation |-> precipitation]

WeatherAlerts ==
    {WeatherAlert(1, s, p, i, w, r) :
        s \in Severities, p \in Populations, i \in InfrastructureScores,
        w \in WindSpeeds, r \in Precipitations}

\* str.lower() on the severities used here.
lower(s) == IF s = "Extreme" THEN "extreme" ELSE s

SEVERITY_WEIGHTS ==
    [s \in {"minor", "moderate", "severe", "extreme"} |->
        CASE s = "minor" -> 2000
          [] s = "moderate" -> 4000
          [] s = "severe" -> 7000
          [] s = "extreme" -> 10000]

\* SEVERITY_WEIGHTS.get(key, 0.5)
severity_weight(key) ==
    IF key \in DOMAIN SEVERITY_WEIGHTS THEN SEVERITY_WEIGHTS[key] ELSE 5000

\* np.log1p(p) / 15 in units of 1/FeatureUnit, tabulated for the populations used.
log1p_over_15 ==
    [p \in Populations |->
        CASE p = 0 -> 0
          [] p = 500000 -> 8748
          [] p = 4000000 -> 10135]

\* (x or 0) for an Optional[float]
or_zero(x) == IF x = Absent THEN 0 ELSE x[1]

extract_features(alert) ==
    <<severity_weight(lower(alert.severity)),
      log1p_over_15[alert.population_affected],
      alert.infrastructure_score,
      (or_zero(alert.wind_speed) * FeatureUnit) \div 200,
      (or_zero(alert.precipitation) * FeatureUnit) \div 500>>

weights == <<25, 30, 20, 15, 10>>

\* np.dot(features, weights)
dot(features, w) ==
    features[1] * w[1] + features[2] * w[2] + features[3] * w[3]
        + features[4] * w[4] + features[5] * w[5]

\* The weighted sum returned as it is.
clip_none(x, lo, hi) == x

\* np.clip(x, lo, hi)
clip(x, lo, hi) == IF x < lo THEN lo ELSE IF x > hi THEN hi ELSE x

\* PRIORITY_LEVELS in the order of the dict, bounds in units of 1/ScoreUnit.
PRIORITY_LEVELS ==
    <<[low |-> 0, high |-> 300000, level |-> "LOW"],
      [low |-> 300000, high |-> 600000, level |-> "MEDIUM"],
      [low |-> 600000, high |-> 800000, level |-> "HIGH"],
      [low |-> 800000, high |-> 1000000, level |-> "CRITICAL"]>>

\* The for loop of calculate_priority: the first bin with low <= score < high,
\* and the initial value "MEDIUM" when no bin matches.
priority_level_of(score) ==
    LET matching == {i \in DOMAIN PRIORITY_LEVELS :
                        /\ PRIORITY_LEVELS[i].low <= score
                        /\ score < PRIORITY_LEVELS[i].high}
    IN  IF matching = {} THEN "MEDIUM"
        ELSE PRIORITY_LEVELS[CHOOSE i \in matching : \A j \in matching : i <= j].level

PriorityScore(alert_id, score, priority_level, factors) ==
    [alert_id |-> alert_id, score |-> score, priority_level |-> priority_level,
     factors |-> factors]

calculate_priority_of(alert) ==
    LET features == extract_features(alert)
        score == clip(dot(features, weights), 0, ScoreUnit)
    IN  PriorityScore(alert.id, score, priority_level_of(score), features)

\* list.sort(key=score) followed by list.reverse(): descending, but equal
\* scores end up in the opposite of their input order.
RECURSIVE insert_ascending(_, _)
insert_ascending(sorted, x) ==
    IF sorted = <<>> THEN <<x>>
    ELSE IF Head(sorted).score <= x.score
         THEN <<Head(sorted)>> \o insert_ascending(Tail(sorted), x)
         ELSE <<x>> \o sorted

RECURSIVE sort_ascending(_)
sort_ascending(scores) ==
    IF scores = <<>> THEN <<>>
    ELSE insert_ascending(sort_ascending(SubSeq(scores, 1, Len(scores) - 1)),
                          scores[Len(scores)])

RECURSIVE reverse(_)
reverse(scores) ==
    IF scores = <<>> THEN <<>> ELSE reverse(Tail(scores)) \o <<Head(scores)>>

sort_then_reverse(scores) == reverse(sort_ascending(scores))

\* list.sort(key=lambda x: x.score, reverse=True): descending by score, and
\* stable (elements with equal keys keep their order).  x, the latest element,
\* goes behind every element whose score is not smaller.
RECURSIVE insert_descending(_, _)
insert_descending(sorted, x) ==
    IF sorted = <<>> THEN <<x>>
    ELSE IF Head(sorted).score >= x.score
         THEN <<Head(sorted)>> \o insert_descending(Tail(sorted), x)
         ELSE <<x>> \o sorted

RECURSIVE sort_reverse_insertion(_)
sort_reverse_insertion(scores) ==
    IF scores = <<>> THEN <<>>
    ELSE insert_descending(sort_reverse_insertion(SubSeq(scores, 1, Len(scores) - 1)),
                           scores[Len(scores)])

sort_reverse(scores) == sort_reverse_insertion(scores)

\* The alerts of a batch; the id of an alert is its position in the batch.
BatchAlertKinds ==
    {WeatherAlert(1, s, 0, 10000, Absent, r) :
        s \in {"minor", "severe"}, r \in {Absent, <<250>>}}

Batches ==
    UNION {{[i \in 1..n |-> [kinds[i] EXCEPT !.id = i]] : kinds \in [1..n -> BatchAlertKinds]}
               : n \in 0..MaxBatch}

NoCall == [op |-> "none", alerts |-> <<>>, result |-> <<>>]

PriorityInit == pr_last = NoCall

calculate_priority(alert) ==
    pr_last' = [op |-> "calculate_priority", alerts |-> <<alert>>,
                result |-> <<calculate_priority_of(alert)>>]

prioritize_batch(alerts) ==
    LET scores == [i \in 1..Len(alerts) |-> calculate_priority_of(alerts[i])]
    IN  pr_last' = [op |-> "prioritize_batch", alerts |-> alerts,
                    result |-> sort_reverse(scores)]

PriorityStep ==
    \/ \E alert \in WeatherAlerts : calculate_priority(alert)
    \/ \E alerts \in Batches : prioritize_batch(alerts)


(***************************************************************************)
(* BatchProcessor, src/src/processing/optimizer.py                         *)
(*                                                                         *)
(* add calls of several producers run as coroutines on one event loop: a   *)
(* call runs without interruption up to an await that suspends, which is   *)
(* either the lock acquisition while another call holds the lock, or the   *)
(* handler.                                                                *)
(***************************************************************************)

MaxBatchSize == 2
MaxFlushInterval == 2
MaxAdds == 3
MaxBatchTicks == 3

BatchProducers == {"w1", "w2"}
Unlocked == "unlocked"

BatchConfigs ==
    [batch_size : 1..MaxBatchSize, flush_interval : 1..MaxFlushInterval,
     process_func : BOOLEAN]

\* What a call of process_func does: return at once, suspend, or raise.
HandlerOutcomes == {"return", "suspend", "raise"}

NoAppend == [valid |-> FALSE]

BatchInit ==
    /\ bp_config \in BatchConfigs
    /\ buffer = <<>>
    /\ last_flush = 0
    /\ lock = Unlocked
    /\ waiters = <<>>
    /\ bp_pc = [w \in BatchProducers |-> "idle"]
    /\ bp_item = [w \in BatchProducers |-> 0]
    /\ batch = <<>>
    /\ bp_now = 0
    /\ bp_calls = 0
    /\ bp_added = <<>>
    /\ bp_handled = <<>>
    /\ bp_faults = 0
    /\ bp_last = NoAppend

BatchParked ==
    BatchInit /\ bp_config = [batch_size |-> 1, flush_interval |-> 1, process_func |-> FALSE]

\* The size test of add with > in place of >=.
should_flush_strict(size, elapsed, cfg) ==
    size > cfg.batch_size \/ elapsed > cfg.flush_interval

\* should_flush of add.
should_flush(size, elapsed, cfg) ==
    size >= cfg.batch_size \/ elapsed > cfg.flush_interval

\* _flush without the self._buffer.clear() line.
buffer_clear_skipped(items) == items

\* self._buffer.clear()
buffer_clear(items) == <<>>

\* An add call that ends without giving the lock back.
release_skipped(w) ==
    /\ lock' = lock
    /\ bp_pc' = [bp_pc EXCEPT ![w] = "idle"]
    /\ bp_item' = [bp_item EXCEPT ![w] = 0]

\* Leaving `async with self._lock` at the end of producer w's add call.
release(w) ==
    /\ lock' = Unlocked
    /\ bp_pc' = [bp_pc EXCEPT ![w] = "idle"]
    /\ bp_item' = [bp_item EXCEPT ![w] = 0]

\* The body of add under the lock, for producer w, up to the first await that
\* suspends: append, flush decision and, when flushing, _flush up to the
\* handler call.  `outcome` is what process_func does when called.
add_locked(w, item, outcome) ==
    LET appended == Append(buffer, item)
        elapsed == bp_now - last_flush
        flush == should_flush(Len(appended), elapsed, bp_config)
    IN  /\ bp_added' = Append(bp_added, item)
        /\ bp_last' = [valid |-> TRUE, producer |-> w, item |-> item,
                       size |-> Len(appended), elapsed |-> elapsed, flushed |-> flush]
        /\ UNCHANGED <<bp_config, bp_now>>
        /\ IF ~flush
           THEN /\ buffer' = appended
                /\ release(w)
                /\ UNCHANGED <<last_flush, batch, bp_handled, bp_faults>>
           ELSE /\ buffer' = buffer_clear(appended)
                /\ last_flush' = bp_now
                /\ IF ~bp_config.process_func
                   THEN /\ release(w)
                        /\ UNCHANGED <<batch, bp_handled, bp_faults>>
                   ELSE /\ bp_handled' = Append(bp_handled, appended)
                        /\ CASE outcome = "return" ->
                                    /\ release(w)
                                    /\ UNCHANGED <<batch, bp_faults>>
                             [] outcome = "raise" ->
                                    /\ release(w)
                                    /\ bp_faults' = bp_faults + 1
                                    /\ UNCHANGED batch
                             [] outcome = "suspend" ->
                                    /\ lock' = w
                                    /\ bp_pc' = [bp_pc EXCEPT ![w] = "handler"]
                                    /\ bp_item' = bp_item
                                    /\ batch' = appended
                                    /\ UNCHANGED bp_faults

\* add entering its body without regard to the lock.
acquire_unguarded(holder, waiting) == TRUE

\* `async with self._lock` is entered without suspending: the lock is not
\* held and no earlier caller waits for it.
acquire_at_once(holder, waiting) == holder = Unlocked /\ waiting = <<>>

\* add(item) called by producer w: the lock is free and nobody waits for it,
\* so the body runs at once; otherwise the call suspends in acquire.
add(w, outcome) ==
    /\ bp_pc[w] = "idle"
    /\ bp_calls < MaxAdds
    /\ bp_calls' = bp_calls + 1
    /\ IF acquire_at_once(lock, waiters)
       THEN /\ add_locked(w, bp_calls + 1, outcome)
            /\ UNCHANGED waiters
       ELSE /\ bp_pc' = [bp_pc EXCEPT ![w] = "acquire"]
            /\ bp_item' = [bp_item EXCEPT ![w] = bp_calls + 1]
            /\ waiters' = Append(waiters, w)
            /\ UNCHANGED <<bp_config, buffer, last_flush, lock, batch, bp_now,
                           bp_added, bp_handled, bp_faults, bp_last>>

\* The oldest waiter is woken once the lock is free and runs the body.
add_acquired(outcome) ==
    /\ lock = Unlocked
    /\ waiters # <<>>
    /\ waiters' = Tail(waiters)
    /\ add_locked(Head(waiters), bp_item[Head(waiters)], outcome)
    /\ UNCHANGED bp_calls

\* The suspended handler finishes: it returns, or raises into the add call.
\* Either way `async with` releases the lock.
handler_done(w, outcome) ==
    /\ bp_pc[w] = "handler"
    /\ outcome \in {"return", "raise"}
    /\ release(w)
    /\ batch' = <<>>
    /\ bp_faults' = IF outcome = "raise" THEN bp_faults + 1 ELSE bp_faults
    /\ UNCHANGED <<bp_config, buffer, last_flush, waiters, bp_now, bp_calls,
                   bp_added, bp_handled, bp_last>>

\* A clock with a background timer that flushes an overdue buffer.
BatchTick_timer ==
    LET overdue == /\ lock = Unlocked
                   /\ buffer # <<>>
                   /\ bp_now + 1 - last_flush > bp_config.flush_interval
    IN  /\ bp_now < MaxBatchTicks
        /\ bp_now' = bp_now + 1
        /\ buffer' = IF overdue THEN <<>> ELSE buffer
        /\ last_flush' = IF overdue THEN bp_now + 1 ELSE last_flush
        /\ bp_handled' = IF overdue /\ bp_config.process_func
                         THEN Append(bp_handled, buffer) ELSE bp_handled
        /\ UNCHANGED <<bp_config, lock, waiters, bp_pc, bp_item,
                       batch, bp_calls, bp_added, bp_faults, bp_last>>

BatchTick ==
    /\ bp_now < MaxBatchTicks
    /\ bp_now' = bp_now + 1
    /\ UNCHANGED <<bp_config, buffer, last_flush, lock, waiters, bp_pc, bp_item,
                   batch, bp_calls, bp_added, bp_handled, bp_faults, bp_last>>

BatchStep ==
    \/ \E w \in BatchProducers, outcome \in HandlerOutcomes : add(w, outcome)
    \/ \E outcome \in HandlerOutcomes : add_acquired(outcome)
    \/ \E w \in BatchProducers, outcome \in HandlerOutcomes : handler_done(w, outcome)
    \/ BatchTick


(***************************************************************************)
(* GeoIndex, src/src/processing/optimizer.py                               *)
(*                                                                         *)
(* Coordinates and the resolution are in hundredths of a degree; the       *)
(* quotient lat / resolution is exact.                                     *)
(***************************************************************************)

MaxInserts == 2
MaxRadius == 1

\* resolution: float = 0.1
resolution == 10

GeoItems == {"a", "b"}
GeoLatitudes == {-15, -5, 5, 15}
GeoLongitudes == {-5, 15}

\* int(x / resolution): the quotient with its fractional part cut off.
int_div(x, r) == IF x >= 0 THEN x \div r ELSE -((-x) \div r)

get_cell(lat, lon) == <<int_div(lat, resolution), int_div(lon, resolution)>>

\* range(-radius_cells, radius_cells)
range_exclusive(radius_cells) == [i \in 1..(2 * radius_cells) |-> i - radius_cells - 1]

\* range(-radius_cells, radius_cells + 1), in order
range_around(radius_cells) == [i \in 1..(2 * radius_cells + 1) |-> i - radius_cells - 1]

\* self._grid.get(cell, [])
grid_get(g, cell) == IF cell \in DOMAIN g THEN g[cell] ELSE <<>>

\* The two nested loops of query_radius, from position (i, j) of the ranges on.
RECURSIVE extend_from(_, _, _, _, _)
extend_from(g, center, offsets, i, j) ==
    IF i > Len(offsets) THEN <<>>
    ELSE IF j > Len(offsets) THEN extend_from(g, center, offsets, i + 1, 1)
    ELSE grid_get(g, <<center[1] + offsets[i], center[2] + offsets[j]>>)
             \o extend_from(g, center, offsets, i, j + 1)

NoGeoCall == [op |-> "none"]

GeoInit ==
    /\ grid = <<>>
    /\ geo_inserted = <<>>
    /\ geo_last = NoGeoCall

insert(item, lat, lon) ==
    LET cell == get_cell(lat, lon) IN
    /\ Len(geo_inserted) < MaxInserts
    /\ grid' = IF cell \in DOMAIN grid
               THEN [grid EXCEPT ![cell] = Append(@, item)]
               ELSE [c \in DOMAIN grid \cup {cell} |->
                        IF c = cell THEN <<item>> ELSE grid[c]]
    /\ geo_inserted' = Append(geo_inserted, [item |-> item, lat |-> lat, lon |-> lon])
    /\ geo_last' = [op |-> "insert", lat |-> lat, lon |-> lon, cell |-> cell]

query_radius(lat, lon, radius_cells) ==
    LET center == get_cell(lat, lon) IN
    /\ geo_last' = [op |-> "query_radius", lat |-> lat, lon |-> lon,
                    radius_cells |-> radius_cells, center |-> center,
                    results |-> extend_from(grid, center, range_around(radius_cells), 1, 1)]
    /\ UNCHANGED <<grid, geo_inserted>>

geo_clear ==
    /\ grid' = <<>>
    /\ geo_inserted' = <<>>
    /\ geo_last' = [op |-> "clear"]

GeoStep ==
    \/ \E item \in GeoItems, lat \in GeoLatitudes, lon \in GeoLongitudes :
           insert(item, lat, lon)
    \/ \E lat \in GeoLatitudes, lon \in GeoLongitudes, r \in 0..MaxRadius :
           query_radius(lat, lon, r)
    \/ geo_clear


(***************************************************************************)
(* AlertDeduplicator.is_duplicate called by several worker processes that  *)
(* share one store, src/src/alerts/deduplication.py lines 76-96.  Each     *)
(* process has its own deduplicator (and in-process set); is_duplicate is  *)
(* synchronous, so calls interleave only at the two requests to the store. *)
(***************************************************************************)

MaxRaceCalls == 3

RaceProcesses == {"d1", "d2"}

NoRaceCall == [late |-> FALSE]

RaceInit ==
    /\ race_store = 0
    /\ race_local = [d \in RaceProcesses |-> FALSE]
    /\ race_pc = [d \in RaceProcesses |-> "idle"]
    /\ race_call = [d \in RaceProcesses |-> NoRaceCall]
    /\ race_now = 0
    /\ race_first = -1
    /\ race_results = <<>>

\* The call of process d returns `result`; `late` tells that it started after
\* every earlier call had completed, within the TTL of the first one.
race_return(d, result, late) ==
    /\ race_results' = Append(race_results,
                              [process |-> d, result |-> result, late |-> late])
    /\ race_pc' = [race_pc EXCEPT ![d] = "idle"]
    /\ race_call' = [race_call EXCEPT ![d] = NoRaceCall]

\* Lines 91-96 in process d: the answer of its in-process set.
race_local_lookup(d, late) ==
    /\ race_return(d, race_local[d], late)
    /\ race_local' = [race_local EXCEPT ![d] = TRUE]

\* Process d calls is_duplicate, and the store answers (or fails) its
\* existence check.
is_duplicate_exists(d, outcome) ==
    LET late == /\ \A e \in RaceProcesses : race_pc[e] = "idle"
                /\ race_results # <<>>
                /\ race_now < race_first + CACHE_TTL_HOURS
    IN
    /\ race_pc[d] = "idle"
    /\ Len(race_results) + Cardinality({e \in RaceProcesses : race_pc[e] # "idle"})
           < MaxRaceCalls
    /\ race_first' = IF race_first = -1 THEN race_now ELSE race_first
    /\ IF outcome = "raise"
       THEN /\ race_local_lookup(d, late)
            /\ UNCHANGED race_store
       ELSE IF race_store > race_now
       THEN /\ race_return(d, TRUE, late)
            /\ UNCHANGED <<race_store, race_local>>
       ELSE /\ race_pc' = [race_pc EXCEPT ![d] = "setex"]
            /\ race_call' = [race_call EXCEPT ![d] = [late |-> late]]
            /\ UNCHANGED <<race_store, race_local, race_results>>
    /\ UNCHANGED race_now

\* The store answers (or fails) the setex of process d.
is_duplicate_setex(d, outcome) ==
    /\ race_pc[d] = "setex"
    /\ IF outcome = "raise"
       THEN /\ race_local_lookup(d, race_call[d].late)
            /\ UNCHANGED race_store
       ELSE /\ race_store' = race_now + CACHE_TTL_HOURS
            /\ race_return(d, FALSE, race_call[d].late)
            /\ UNCHANGED race_local
    /\ UNCHANGED <<race_now, race_first>>

RaceTick ==
    /\ race_now < MaxDedupTicks * DedupTickHours
    /\ race_now' = race_now + DedupTickHours
    /\ UNCHANGED <<race_store, race_local, race_pc, race_call, race_first, race_results>>

RaceStep ==
    \/ \E d \in RaceProcesses, o \in RedisOutcomes : is_duplicate_exists(d, o)
    \/ \E d \in RaceProcesses, o \in RedisOutcomes : is_duplicate_setex(d, o)
    \/ RaceTick

\* While one component runs, the others stay in a fixed initial state.
DedupParked == DedupInit /\ ~redis_url /\ ~redis_installed

RateParked == RateInit /\ config = [requests_per_minute |-> 60, burst_size |-> 1,
                                    block_duration_seconds |-> 1]

Init == DedupInit /\ RateParked /\ DeliverInit /\ QueueInit /\ FingerprintParked /\ PriorityInit /\ BatchParked /\ GeoInit /\ RaceInit

DedupNext == DedupStep /\ UNCHANGED <<rl_vars, dl_vars, q_vars, fp_vars, pr_vars, bp_vars, geo_vars, race_vars>>

SpecDedup == Init /\ [][DedupNext]_vars

RateLimitInit == RateInit /\ DedupParked /\ DeliverInit /\ QueueInit /\ FingerprintParked /\ PriorityInit /\ BatchParked /\ GeoInit /\ RaceInit

RateLimitNext == RateNext /\ UNCHANGED <<dd_vars, dl_vars, q_vars, fp_vars, pr_vars, bp_vars, geo_vars, race_vars>>

SpecRate == RateLimitInit /\ [][RateLimitNext]_vars

DeliverSpecInit == DeliverInit /\ DedupParked /\ RateParked /\ QueueInit /\ FingerprintParked /\ PriorityInit /\ BatchParked /\ GeoInit /\ RaceInit

DeliverNext == DeliverStep /\ UNCHANGED <<dd_vars, rl_vars, q_vars, fp_vars, pr_vars, bp_vars, geo_vars, race_vars>>

SpecDeliver == DeliverSpecInit /\ [][DeliverNext]_vars

QueueSpecInit == QueueInit /\ DedupParked /\ RateParked /\ DeliverInit /\ FingerprintParked /\ PriorityInit /\ BatchParked /\ GeoInit /\ RaceInit

QueueNext == QueueStep /\ UNCHANGED <<dd_vars, rl_vars, fp_vars, pr_vars, bp_vars, geo_vars, race_vars>>

SpecQueue == QueueSpecInit /\ [][QueueNext]_vars

FingerprintSpecInit == FingerprintInit /\ DedupParked /\ RateParked /\ DeliverInit /\ QueueInit /\ PriorityInit /\ BatchParked /\ GeoInit /\ RaceInit

FingerprintNext == FingerprintStep /\ UNCHANGED <<dd_vars, rl_vars, dl_vars, q_vars, pr_vars, bp_vars, geo_vars, race_vars>>

SpecFingerprint == FingerprintSpecInit /\ [][FingerprintNext]_vars

PrioritySpecInit == PriorityInit /\ DedupParked /\ RateParked /\ DeliverInit /\ QueueInit /\ FingerprintParked /\ BatchParked /\ GeoInit /\ RaceInit

PriorityNext == PriorityStep /\ UNCHANGED <<dd_vars, rl_vars, dl_vars, q_vars, fp_vars, bp_vars, geo_vars, race_vars>>

SpecPriority == PrioritySpecInit /\ [][PriorityNext]_vars

BatchSpecInit == BatchInit /\ DedupParked /\ RateParked /\ DeliverInit /\ QueueInit /\ FingerprintParked /\ PriorityInit /\ GeoInit /\ RaceInit

BatchNext == BatchStep /\ UNCHANGED <<dd_vars, rl_vars, dl_vars, q_vars, fp_vars, pr_vars, geo_vars, race_vars>>

SpecBatch == BatchSpecInit /\ [][BatchNext]_vars

GeoSpecInit == GeoInit /\ DedupParked /\ RateParked /\ DeliverInit /\ QueueInit /\ FingerprintParked /\ PriorityInit /\ BatchParked /\ RaceInit

GeoNext == GeoStep /\ UNCHANGED <<dd_vars, rl_vars, dl_vars, q_vars, fp_vars, pr_vars, bp_vars, race_vars>>

SpecGeo == GeoSpecInit /\ [][GeoNext]_vars

RaceSpecInit == RaceInit /\ DedupParked /\ RateParked /\ DeliverInit /\ QueueInit /\ FingerprintParked /\ PriorityInit /\ BatchParked /\ GeoInit

RaceNext == RaceStep /\ UNCHANGED <<dd_vars, rl_vars, dl_vars, q_vars, fp_vars, pr_vars, bp_vars, geo_vars>>

SpecDedupRace == RaceSpecInit /\ [][RaceNext]_vars

\* C1: the first is_duplicate call for a fingerprint that was never recorded
\* returns false, and every later call with the same fingerprint made before
\* the 24h TTL of the recording has elapsed returns true, whatever the shared
\* store does (absent, failing on some calls, recovering).
DedupOnceRecordedAlwaysDuplicate ==
    dd_last.valid =>
        /\ (dd_last.recorded = -1 => dd_last.result = FALSE)
        /\ (dd_last.recorded >= 0 /\ dd_last.at < dd_last.recorded + CACHE_TTL_HOURS
                => dd_last.result = TRUE)

(***************************************************************************)
(* Properties of the rate limiter                                          *)
(***************************************************************************)

\* A step of check(k): the clock stands still and the latest operation
\* becomes a check of k.
IsCheckStep(k) == rl_now' = rl_now /\ rl_last'.op = "check" /\ rl_last'.key = k

\* A step of reset(k).
IsResetStep(k) == rl_now' = rl_now /\ rl_last'.op = "reset" /\ rl_last'.key = k

\* C3: after any sequence of checks and resets on any keys, with the clock
\* never going back, every bucket's token count is at least 0 and at most
\* burst_size.
TokensWithinCapacity ==
    \A k \in DOMAIN buckets :
        /\ buckets[k].tokens >= 0
        /\ buckets[k].tokens <= config.burst_size * TokenUnit

\* An existing bucket whose refill exceeded the capacity was checked, and it
\* now holds capacity - 1 tokens.
TokensWithinCapacityWitness ==
    /\ rl_last.op = "check"
    /\ rl_last.capped
    /\ rl_last.key \in DOMAIN buckets
    /\ buckets[rl_last.key].tokens = (config.burst_size - 1) * TokenUnit

\* C4: for a key without a bucket, burst_size checks with no time elapsing
\* are all allowed and leave burst_size-1, ..., 0 tokens; the next check is
\* denied and blocks the key for block_duration_seconds from that moment.
BurstThenBlock ==
    (rl_last.op = "check" /\ rl_last.streak >= 1) =>
        /\ (rl_last.streak <= config.burst_size =>
                /\ rl_last.allowed
                /\ rl_last.remaining = config.burst_size - rl_last.streak)
        /\ (rl_last.streak = config.burst_size + 1 =>
                /\ ~rl_last.allowed
                /\ ~rl_last.by_block
                /\ rl_last.key \in DOMAIN blocked
                /\ blocked[rl_last.key]
                     = rl_last.at + config.block_duration_seconds * TicksPerSec)

\* The check after a burst of burst_size >= 2 allowed checks was denied.
BurstThenBlockWitness ==
    /\ rl_last.op = "check"
    /\ config.burst_size >= 2
    /\ rl_last.streak = config.burst_size + 1
    /\ ~rl_last.allowed
    /\ rl_last.key \in DOMAIN blocked

\* C5: while a key is blocked (now < block_until) every check of it is denied,
\* whatever its bucket would hold after a refill, and the denied check changes
\* neither the buckets nor the blocks.
BlockedCheckDeniedUnchanged ==
    [][\A k \in RateKeys :
         (k \in DOMAIN blocked /\ rl_now < blocked[k] /\ IsCheckStep(k)) =>
            /\ ~rl_last'.allowed
            /\ rl_last'.remaining = 0
            /\ buckets' = buckets
            /\ blocked' = blocked]_vars

\* A check was denied by the block although a refill would have given the
\* bucket at least one token.
BlockedCheckDeniedWitness ==
    /\ rl_last.op = "check"
    /\ rl_last.by_block
    /\ rl_last.at = rl_now
    /\ buckets[rl_last.key].tokens
         + (rl_now - buckets[rl_last.key].last_update) * buckets[rl_last.key].rate >= TokenUnit

\* C6: a check at a time now >= block_until is not denied by the block: the
\* block entry is removed and the refilled bucket alone decides, so the check
\* is allowed whenever one token was refilled during the block; a denial
\* starts a new block.
ExpiredBlockDecidedByBucket ==
    [][\A k \in RateKeys :
         (k \in DOMAIN blocked /\ rl_now >= blocked[k] /\ IsCheckStep(k)) =>
            LET refilled == Min(buckets[k].capacity * TokenUnit,
                                buckets[k].tokens
                                  + (rl_now - buckets[k].last_update) * buckets[k].rate)
                block_start == blocked[k] - config.block_duration_seconds * TicksPerSec
            IN
            /\ ~rl_last'.by_block
            /\ rl_last'.allowed = (refilled >= TokenUnit)
            /\ ((rl_now - block_start) * buckets[k].rate >= TokenUnit => rl_last'.allowed)
            /\ (rl_last'.allowed => k \notin DOMAIN blocked')
            /\ (~rl_last'.allowed =>
                    /\ k \in DOMAIN blocked'
                    /\ blocked'[k] = rl_now + config.block_duration_seconds * TicksPerSec)]_vars

\* A check made exactly at block_until found the block expired and was allowed.
ExpiredBlockWitness ==
    /\ rl_last.op = "check"
    /\ rl_last.had_block
    /\ ~rl_last.by_block
    /\ rl_last.allowed
    /\ rl_last.expired_at = rl_last.at
    /\ rl_last.key \notin DOMAIN blocked

\* C7: reset(key) removes the bucket and the block of that key and nothing of
\* any other key; the next check(key) is allowed with burst_size - 1
\* remaining, as for a key never seen, also when the key was blocked.
ResetClearsKeyOnly ==
    [][\A k \in RateKeys :
         /\ IsResetStep(k) =>
                /\ k \notin DOMAIN buckets'
                /\ k \notin DOMAIN blocked'
                /\ DOMAIN buckets' = DOMAIN buckets \ {k}
                /\ DOMAIN blocked' = DOMAIN blocked \ {k}
                /\ \A j \in DOMAIN buckets' : buckets'[j] = buckets[j]
                /\ \A j \in DOMAIN blocked' : blocked'[j] = blocked[j]
         /\ (IsCheckStep(k) /\ rl_last.op = "reset" /\ rl_last.key = k) =>
                /\ rl_last'.fresh
                /\ rl_last'.allowed
                /\ rl_last'.remaining = config.burst_size - 1]_vars

\* A blocked key was reset while another key had a bucket, and its next check
\* was allowed.
ResetClearsKeyWitness ==
    /\ rl_last.op = "check"
    /\ rl_last.after_reset
    /\ rl_last.reset_cleared_block
    /\ rl_last.allowed
    /\ \E j \in DOMAIN buckets : j # rl_last.key

(***************************************************************************)
(* Properties of deliver                                                   *)
(***************************************************************************)

\* C2: for every task, whatever the mix of registered and unregistered
\* channels, valid and invalid recipients and succeeding, failing or raising
\* sends, the report has successful + failed = total_channels =
\* len(task.channels) and exactly one result per entry of task.channels.
DeliveryClosure ==
    pc = "done" =>
        /\ report.successful + report.failed = report.total_channels
        /\ report.total_channels = Len(task.channels)
        /\ Len(report.results) = Len(task.channels)
        /\ report.successful = Cardinality({i \in 1..Len(report.results) : report.results[i].success})
        /\ report.failed = Cardinality({i \in 1..Len(report.results) : ~report.results[i].success})

\* A report of two channels with one success and one send that raised.
DeliveryClosureWitness ==
    /\ pc = "done"
    /\ report.total_channels = 2
    /\ report.successful = 1
    /\ report.failed = 1
    /\ \E i \in 1..2 : report.results[i].error = SendFault

\* C8: deliver attempts every entry of task.channels in order; a channel that
\* is not found, an invalid recipient, a failed send and a raising send never
\* stop or change the attempts of later channels, and the i-th result is for
\* the i-th channel name.
DeliverEveryChannelInOrder ==
    /\ Len(dl_log) <= Len(task.channels)
    /\ \A i \in 1..Len(dl_log) : dl_log[i].channel = task.channels[i]
    /\ Len(results) <= Len(dl_log)
    /\ \A i \in 1..Len(results) : results[i].channel = task.channels[i]
    /\ (pc = "loop" => Len(results) = Len(dl_log) /\ index = Len(results) + 1)
    /\ (pc = "sending" => Len(results) + 1 = Len(dl_log) /\ index = Len(dl_log))
    /\ (pc = "done" =>
            /\ Len(dl_log) = Len(task.channels)
            /\ Len(report.results) = Len(task.channels)
            /\ \A i \in 1..Len(report.results) : report.results[i].channel = task.channels[i])
    /\ (pc = "raised" => dl_log[Len(dl_log)].valid = "raise")

\* A delivery finished whose first channel failed and whose second succeeded.
DeliverEveryChannelWitness ==
    /\ pc = "done"
    /\ Len(task.channels) >= 2
    /\ ~report.results[1].success
    /\ report.results[2].success

\* C9: classification by first match.  An unregistered name fails with
\* "Channel not found" and neither validate nor send is called; a rejected
\* recipient fails with "Invalid recipient" and send is not called (email and
\* sms both reject "not-valid"); otherwise send is called once, a raised fault
\* becomes a failure carrying its message, and a completed send yields the
\* channel's own result with its message id.
DeliverClassification ==
    \A i \in 1..Len(results) :
        LET e == dl_log[i]
            r == results[i]
            name == task.channels[i]
        IN
        /\ ~e.registered =>
              /\ r = DeliveryResult(name, FALSE, None, "Channel not found")
              /\ e.validate_calls = 0
              /\ e.send_calls = 0
        /\ (e.registered /\ e.valid = "false") =>
              /\ r = DeliveryResult(name, FALSE, None, "Invalid recipient")
              /\ e.validate_calls = 1
              /\ e.send_calls = 0
        /\ (e.registered /\ name \in {"email", "sms"} /\ task.recipient = NotValid) =>
              /\ e.valid = "false"
              /\ r.error = "Invalid recipient"
        /\ (e.registered /\ e.valid = "true") =>
              /\ e.validate_calls = 1
              /\ e.send_calls = 1
              /\ (e.outcome = "raise" => r = DeliveryResult(name, FALSE, None, SendFault))
              /\ (e.outcome = "ok" =>
                      /\ r.channel = name
                      /\ r.success
                      /\ r.message_id \in {"msg-001", "sms-001", "wh-001"}
                      /\ r.error = None)
              /\ (e.outcome = "fail" => r.channel = name /\ ~r.success)

\* The scenario: email and sms registered, recipient "not-valid", both fail
\* with "Invalid recipient".
DeliverClassificationWitness ==
    /\ pc = "done"
    /\ task.channels = <<"email", "sms">>
    /\ task.recipient = NotValid
    /\ dl_log[1].registered /\ dl_log[2].registered
    /\ report.results[1].error = "Invalid recipient"
    /\ report.results[2].error = "Invalid recipient"
    /\ report.failed = 2

\* C10: deliver never raises to its caller for a per-channel problem: an
\* unknown channel, a malformed recipient, a fault raised by validate_recipient
\* and a fault raised by send all end up as failure results in the report.
DeliverNeverRaises == pc # "raised"

(***************************************************************************)
(* Properties of the delivery queue                                        *)
(***************************************************************************)

\* C11: process_queue delivers the enqueued tasks first-in-first-out, one at
\* a time (a task is taken only when no delivery is under way), each task at
\* most once and none skipped: the tasks taken followed by the tasks still
\* queued are the tasks enqueued, so each producer's tasks are delivered in
\* its submission order.
QueueFifoOneAtATime ==
    [][/\ q_enqueued' = q_taken' \o queue'
       /\ \A i, j \in 1..Len(q_taken') :
             (i < j /\ q_taken'[i].id[1] = q_taken'[j].id[1])
                 => q_taken'[i].id[2] < q_taken'[j].id[2]
       /\ (pc' \in {"loop", "sending", "done", "raised"} =>
             /\ consumer' = "deliver"
             /\ task' = q_taken'[Len(q_taken')])
       /\ (q_taken' # q_taken =>
             /\ pc = "idle"
             /\ queue # <<>>
             /\ q_taken' = Append(q_taken, Head(queue)))]_vars

\* Three tasks of two producers were enqueued and all have been delivered.
QueueFifoWitness ==
    /\ Len(q_taken) = 3
    /\ \E i, j \in 1..3 : q_taken[i].id[1] # q_taken[j].id[1]
    /\ queue = <<>>
    /\ consumer = "test"
    /\ pc = "idle"

\* C12: process_queue never ends because of one task: after a delivery that
\* raised it logs and goes to the next iteration, and it returns only from the
\* loop test, after stop() was called.
ConsumerSurvivesTaskFailure ==
    [][/\ (consumer = "deliver" /\ pc = "raised" /\ consumer' # consumer)
             => consumer' = "test"
       /\ (consumer = "deliver" /\ pc = "done" /\ consumer' # consumer)
             => consumer' = "test"
       /\ (consumer' = "returned" /\ consumer # "returned")
             => (consumer = "test" /\ q_stopped /\ ~running)]_vars

\* After a delivery that raised, a later task was delivered and the consumer
\* is still running without stop() having been called.
ConsumerSurvivesWitness ==
    /\ q_errors >= 1
    /\ consumer = "deliver"
    /\ pc = "done"
    /\ report.successful = 1
    /\ ~q_stopped

\* C13: the consumer never attempts a task more than task.max_attempts times,
\* for every max_attempts including 0.
RetryBound ==
    \A i \in 1..Len(q_taken) :
        Cardinality({j \in 1..Len(q_taken) : q_taken[j].id = q_taken[i].id})
            <= q_taken[i].max_attempts

(***************************************************************************)
(* Properties of the deduplicator: expiry and fingerprints                 *)
(***************************************************************************)

\* C14: once the 24h TTL of a recorded fingerprint has elapsed, the next
\* is_duplicate call with it returns false again, whether it was recorded in
\* the shared store or in the in-process cache.
DedupForgetsAfterTtl ==
    (dd_last.valid /\ dd_last.recorded >= 0
        /\ dd_last.at >= dd_last.recorded + CACHE_TTL_HOURS)
    => dd_last.result = FALSE

\* Two timestamps (minutes since midnight) lie in the same quarter of an hour.
SameWindow(t1, t2) == t1 \div 15 = t2 \div 15

\* C15: of two records with the same type, severity and location submitted
\* one after the other to a fresh deduplicator, the second is classified
\* duplicate exactly when both timestamps lie in the same 15-minute window
\* aligned to the hour, in either order of arrival.
DedupSameWindowIsDuplicate ==
    (/\ dd_last.valid
     /\ stats.processed = 2
     /\ dd_last.has_prev
     /\ dd_last.prev_alert.type = dd_last.alert.type
     /\ dd_last.prev_alert.severity = dd_last.alert.severity
     /\ dd_last.prev_alert.latitude = dd_last.alert.latitude
     /\ dd_last.prev_alert.longitude = dd_last.alert.longitude)
    => IF SameWindow(dd_last.prev_alert.timestamp, dd_last.alert.timestamp)
       THEN (dd_last.recorded >= 0 /\ dd_last.at < dd_last.recorded + CACHE_TTL_HOURS)
                => dd_last.result = TRUE
       ELSE dd_last.result = FALSE

\* Two records agree on everything the fingerprint reads besides the location.
SameKindAndWindow(a, b) ==
    /\ a.type = b.type
    /\ a.severity = b.severity
    /\ SameWindow(a.timestamp, b.timestamp)

\* x and y (thousandths of a degree) lie strictly within 0.005 degrees of the
\* same multiple of 0.01 degrees and carry the same sign.
NearSameGridPoint(x, y) ==
    /\ (x < 0) = (y < 0)
    /\ \E k \in {Abs(x) \div 10, Abs(x) \div 10 + 1} :
           Abs(Abs(x) - 10 * k) < 5 /\ Abs(Abs(y) - 10 * k) < 5

\* C16 as stated: two records of the same type and severity in the same time
\* window whose latitude and longitude each differ by less than 0.005 degrees
\* have identical fingerprints.
FingerprintStableWithinJitter ==
    (/\ fp_out.done
     /\ SameKindAndWindow(fp_a, fp_b)
     /\ Abs(fp_a.latitude - fp_b.latitude) < 5
     /\ Abs(fp_a.longitude - fp_b.longitude) < 5)
        => fp_out.a = fp_out.b

\* C16: two records of the same type and severity in the same time window
\* whose latitudes, and whose longitudes, lie strictly within 0.005 degrees of
\* the same multiple of 0.01 degrees with the same sign have identical
\* fingerprints.
FingerprintStableAroundGridPoint ==
    (/\ fp_out.done
     /\ SameKindAndWindow(fp_a, fp_b)
     /\ NearSameGridPoint(fp_a.latitude, fp_b.latitude)
     /\ NearSameGridPoint(fp_a.longitude, fp_b.longitude))
        => fp_out.a = fp_out.b

FingerprintStableWitness ==
    /\ fp_out.done
    /\ SameKindAndWindow(fp_a, fp_b)
    /\ fp_a.timestamp # fp_b.timestamp
    /\ fp_a.latitude = 35006 /\ fp_b.latitude = 35014
    /\ fp_a.longitude # fp_b.longitude
    /\ NearSameGridPoint(fp_a.longitude, fp_b.longitude)
    /\ fp_out.a = fp_out.b

\* The latest call was calculate_priority.
IsPriorityCall == pr_last.op = "calculate_priority"

\* C17: calculate_priority assigns the tier by the bins [0,0.3) LOW,
\* [0.3,0.6) MEDIUM, [0.6,0.8) HIGH and [0.8,1.0] CRITICAL, the boundary
\* scores 0.3, 0.6, 0.8 and the clipped maximum 1.0 included.
TierBinsCoverUnitInterval ==
    IsPriorityCall =>
        LET score == pr_last.result[1].score
            level == pr_last.result[1].priority_level
        IN  /\ (0 <= 10 * score /\ 10 * score < 3 * ScoreUnit) => level = "LOW"
            /\ (3 * ScoreUnit <= 10 * score /\ 10 * score < 6 * ScoreUnit) => level = "MEDIUM"
            /\ (6 * ScoreUnit <= 10 * score /\ 10 * score < 8 * ScoreUnit) => level = "HIGH"
            /\ (8 * ScoreUnit <= 10 * score /\ score <= ScoreUnit) => level = "CRITICAL"

\* C18: calculate_priority returns a score between 0 and 1, also for unknown
\* severity, very large population, wind above 200, precipitation above 500
\* and absent wind or precipitation.
ScoreInUnitInterval ==
    IsPriorityCall => (0 <= pr_last.result[1].score /\ pr_last.result[1].score <= ScoreUnit)

ScoreInUnitIntervalWitness ==
    /\ IsPriorityCall
    /\ LET alert == pr_last.alerts[1]
       IN  /\ lower(alert.severity) \notin DOMAIN SEVERITY_WEIGHTS
           /\ or_zero(alert.wind_speed) > 200
           /\ or_zero(alert.precipitation) > 500
           /\ alert.population_affected = 4000000
           /\ dot(pr_last.result[1].factors, weights) > ScoreUnit
    /\ pr_last.result[1].score = ScoreUnit

\* C19: prioritize_batch returns one assessment per input alert, ordered by
\* non-increasing score, and assessments with equal scores keep the relative
\* order of their alerts in the input.
BatchSortedStable ==
    pr_last.op = "prioritize_batch" =>
        LET alerts == pr_last.alerts
            result == pr_last.result
        IN  /\ Len(result) = Len(alerts)
            /\ \A i \in DOMAIN alerts :
                   Cardinality({j \in DOMAIN result : result[j].alert_id = alerts[i].id}) = 1
            /\ \A j \in DOMAIN result :
                   LET alert == alerts[result[j].alert_id]
                   IN  /\ result[j].factors = extract_features(alert)
                       /\ result[j].score = Min(dot(result[j].factors, weights), ScoreUnit)
            /\ \A j, k \in DOMAIN result :
                   j < k =>
                       /\ result[j].score >= result[k].score
                       /\ result[j].score = result[k].score
                              => result[j].alert_id < result[k].alert_id

BatchSortedStableWitness ==
    /\ pr_last.op = "prioritize_batch"
    /\ Len(pr_last.result) = 3
    /\ pr_last.result[1].alert_id = 2
    /\ pr_last.result[2].alert_id = 3
    /\ pr_last.result[1].score = pr_last.result[2].score
    /\ pr_last.result[3].score < pr_last.result[2].score

\* No add call is in progress.
NoAddInProgress == \A w \in BatchProducers : bp_pc[w] = "idle"

\* C20: add flushes exactly when, after appending the item, the buffer size is
\* >= batch_size or the time since the last flush is > flush_interval; so the
\* buffer holds fewer than batch_size items whenever no add is in progress.
AddFlushesWhenDue ==
    /\ [][bp_added' # bp_added =>
            ((buffer' = <<>> /\ last_flush' = bp_now)
                <=> (\/ Len(buffer) + 1 >= bp_config.batch_size
                     \/ bp_now - last_flush > bp_config.flush_interval))]_vars
    /\ [](NoAddInProgress => Len(buffer) < bp_config.batch_size)

AddFlushesWhenDueWitness ==
    /\ bp_last.valid
    /\ bp_last.flushed
    /\ bp_last.size < bp_config.batch_size
    /\ bp_last.elapsed > bp_config.flush_interval
    /\ buffer = <<>>
    /\ Len(bp_added) = 3
    /\ NoAddInProgress

\* The concatenation of a sequence of batches.
RECURSIVE Flatten(_)
Flatten(batches) ==
    IF batches = <<>> THEN <<>> ELSE Head(batches) \o Flatten(Tail(batches))

\* C21: a flush hands the handler exactly the items added since the previous
\* flush, in the order they were added, leaves the buffer empty and resets the
\* flush clock; the flushed batches, one after the other, are a prefix of the
\* add sequence and the rest of it is the buffer, so no item is handed over
\* twice and none is skipped.
FlushHandsItemsInOrder ==
    /\ [][Len(bp_handled') > Len(bp_handled) =>
            /\ bp_handled' = Append(bp_handled, Append(buffer, bp_added'[Len(bp_added')]))
            /\ buffer' = <<>>
            /\ last_flush' = bp_now]_vars
    /\ [](bp_config.process_func => Flatten(bp_handled) \o buffer = bp_added)

FlushHandsItemsWitness ==
    /\ bp_config.process_func
    /\ Len(bp_handled) = 2
    /\ Len(bp_handled[1]) = 2
    /\ Flatten(bp_handled) = bp_added
    /\ last_flush > 0

\* C22: with a default URL configured, a webhook entry whose recipient is not
\* an http(s) URL (the empty recipient, say) is not rejected as "Invalid
\* recipient" by deliver but sent, to the default URL.
WebhookFallsBackToDefault ==
    LET i == Len(results) IN
    (/\ i > 0
     /\ Len(dl_log) = i
     /\ dl_log[i].registered
     /\ task.channels[i] = "webhook"
     /\ channel.default_url
     /\ task.recipient.is_str
     /\ ~StartsWith(task.recipient.chars, <<"h", "t", "t", "p">>))
        => /\ results[i].error # "Invalid recipient"
           /\ dl_log[i].send_calls = 1

\* The larger of the distances along the two axes between two cells.
Chebyshev(c, d) ==
    LET dx == Abs(c[1] - d[1])
        dy == Abs(c[2] - d[2])
    IN  IF dx >= dy THEN dx ELSE dy

\* C23: query_radius(lat, lon, r) returns exactly the items whose insertion
\* cell lies within Chebyshev distance r of the query point's cell, each once
\* per insert and none from a farther cell, and leaves the index unchanged.
QueryReturnsNeighbourhood ==
    /\ [][geo_last'.op = "query_radius" => grid' = grid]_vars
    /\ [](geo_last.op = "query_radius" =>
            \A x \in GeoItems :
                Cardinality({i \in DOMAIN geo_last.results : geo_last.results[i] = x})
                  = Cardinality({k \in DOMAIN geo_inserted :
                        /\ geo_inserted[k].item = x
                        /\ Chebyshev(get_cell(geo_inserted[k].lat, geo_inserted[k].lon),
                                     get_cell(geo_last.lat, geo_last.lon))
                               <= geo_last.radius_cells}))

QueryReturnsNeighbourhoodWitness ==
    /\ geo_last.op = "query_radius"
    /\ geo_last.radius_cells = 1
    /\ Len(geo_inserted) = 2
    /\ geo_inserted[1].item = geo_inserted[2].item
    /\ Len(geo_last.results) = 1
    /\ Chebyshev(get_cell(geo_inserted[1].lat, geo_inserted[1].lon), geo_last.center) = 1
    /\ Chebyshev(get_cell(geo_inserted[2].lat, geo_inserted[2].lon), geo_last.center) = 2

\* C24: for every latitude and longitude, negative values included, the cell
\* is (floor(lat/resolution), floor(lon/resolution)).
CellIsFloor ==
    geo_last.op = "insert" =>
        geo_last.cell = <<geo_last.lat \div resolution, geo_last.lon \div resolution>>

\* C25: after any sequence of is_duplicate calls, processed is the number of
\* calls, duplicates the number of calls that returned true, 0 <= duplicates
\* <= processed, and duplicate_rate is duplicates/processed, or 0 when
\* processed is 0.
DedupCountersMatchCalls ==
    /\ stats.processed = dd_returned.calls
    /\ stats.duplicates = dd_returned.true
    /\ 0 <= stats.duplicates
    /\ stats.duplicates <= stats.processed
    /\ duplicate_rate(stats) = IF dd_returned.calls = 0 THEN <<0, 1>>
                               ELSE <<dd_returned.true, dd_returned.calls>>

DedupCountersWitness ==
    /\ dd_returned.calls = 3
    /\ dd_returned.true = 2
    /\ dd_last.valid
    /\ dd_last.store_said = "failed"
    /\ dd_last.result

\* C26: whenever a shared store is configured and answers a call, the result
\* of is_duplicate is the store's existence answer; no call returns true for a
\* fingerprint the store reported absent during that call.
SharedStoreIsAuthority ==
    dd_last.valid =>
        /\ dd_last.store_said = "present" => dd_last.result
        /\ dd_last.store_said = "absent" => ~dd_last.result

\* The latest step was an is_duplicate call.
IsDedupCallStep == dd_returned'.calls = dd_returned.calls + 1

\* C27: when no shared store is configured, or the existence check or the
\* set-with-TTL fails, is_duplicate answers from the in-process set (true if
\* the key is in the set, otherwise it adds the key and returns false), and a
\* later call goes to the shared store again.
DedupFallsBackToLocalSet ==
    [][IsDedupCallStep =>
        /\ (\/ ~dd_last'.client
            \/ dd_last'.store_said = "failed"
            \/ dd_last'.setex = "raise")
              => /\ dd_last'.result = (dd_last'.key \in local_cache)
                 /\ local_cache' = local_cache \cup {dd_last'.key}
        /\ (dd_last.valid /\ dd_last.client) => dd_last'.store_said # "unasked"]_vars

\* A call fell back to the in-process set while the store was down, and the
\* latest call was answered by the store again.
DedupFallsBackWitness ==
    /\ dd_last.valid
    /\ dd_last.client
    /\ dd_last.store_said = "present"
    /\ dd_last.result
    /\ ~dd_last.in_cache
    /\ local_cache # {}
    /\ dd_returned = [calls |-> 3, true |-> 1]

\* C28: of the is_duplicate calls for one fresh fingerprint that interleave on
\* the store's existence check and set, at least one returns false, and once
\* all of them have completed every later call within the TTL returns true.
RaceNeverDropsNorRepeats ==
    /\ (race_results # <<>> /\ \A d \in RaceProcesses : race_pc[d] = "idle")
          => \E i \in DOMAIN race_results : ~race_results[i].result
    /\ \A i \in DOMAIN race_results : race_results[i].late => race_results[i].result

\* The producers whose add call is suspended in the handler.
InHandler == {w \in BatchProducers : bp_pc[w] = "handler"}

\* C29: with several producers calling add concurrently and a handler that
\* suspends, no two flushes overlap, the producer whose flush is suspended
\* holds the lock and nothing is appended meanwhile, and no item appears in
\* two batches.
BatchMutualExclusion ==
    /\ [](Cardinality(InHandler) <= 1)
    /\ [](\A w \in InHandler : lock = w)
    /\ [][InHandler # {} => (buffer' = buffer /\ bp_added' = bp_added)]_vars
    /\ [](LET handed == Flatten(bp_handled)
          IN  \A i, j \in DOMAIN handed : handed[i] = handed[j] => i = j)

BatchMutualExclusionWitness ==
    /\ bp_pc["w1"] = "handler"
    /\ bp_pc["w2"] = "acquire"
    /\ waiters = <<"w2">>
    /\ lock = "w1"
    /\ Len(batch) = 2
    /\ buffer = <<>>

StoppedInDelivery == consumer = "deliver" /\ ~running

\* C31: stop() issued while a delivery is in flight does not interrupt it.  The
\* stop step itself changes neither the consumer's position nor the delivery;
\* afterwards the consumer leaves the delivery only when deliver has ended
\* (returned its report or raised), it goes from there to the loop test only,
\* and from the loop test with the signal cleared it goes to the return only:
\* no task is taken from the queue on the way.
StopLetsDeliveryFinish ==
    /\ [][(consumer = "deliver" /\ running /\ ~running') =>
              /\ consumer' = "deliver"
              /\ UNCHANGED <<dl_vars, queue, q_taken>>]_vars
    /\ [][StoppedInDelivery =>
              /\ consumer' \in {"deliver", "test"}
              /\ consumer' = "test" => pc \in {"done", "raised"}
              /\ q_taken' = q_taken
              /\ task' = task
              /\ ~running']_vars
    /\ [][(consumer = "test" /\ ~running) =>
              /\ consumer' \in {"test", "returned"}
              /\ q_taken' = q_taken
              /\ ~running']_vars

\* stop() has been called while the task's channel is being sent to and
\* another task is waiting in the queue.
StopLetsDeliveryFinishWitness ==
    /\ StoppedInDelivery
    /\ pc = "sending"
    /\ task = q_taken[Len(q_taken)]
    /\ queue # <<>>

\* The steps of the process_queue coroutine.  The event loop runs a coroutine
\* that is ready: the entry into process_queue, the loop test, the end of
\* wait_for (a task or, after one second, the timeout) and the steps of the
\* awaited delivery are taken eventually once they can be taken.
ConsumerNext ==
    /\ \/ process_queue
       \/ process_queue_test
       \/ process_queue_get
       \/ process_queue_timeout
       \/ process_queue_deliver
       \/ process_queue_delivered
       \/ process_queue_error
    /\ UNCHANGED <<dd_vars, rl_vars, fp_vars, pr_vars, bp_vars, geo_vars, race_vars>>

\* Every step of the coroutine changes its position: the consumer's place in
\* process_queue or the delivery's place in deliver.
consumer_position == <<consumer, pc, index>>

SpecQueueFair == QueueSpecInit /\ [][QueueNext]_vars /\ WF_consumer_position(ConsumerNext)

\* C32: stop is never lost.  Once stop() has been called, at whatever point of
\* process_queue, including before its first statement, process_queue
\* eventually returns.
StopIsNeverLost == q_stopped ~> (consumer = "returned")

\* RateLimitConfig.block_duration_seconds, the default.
DefaultBlockSeconds == 300

\* Configurations that keep the default block duration.
DefaultBlockConfigs ==
    [requests_per_minute : RpmChoices, burst_size : 1..MaxBurst,
     block_duration_seconds : {DefaultBlockSeconds}]

\* RateLimiter(config) with a configuration that keeps the default block
\* duration.
RetryInit ==
    /\ config \in DefaultBlockConfigs
    /\ buckets = <<>>
    /\ blocked = <<>>
    /\ rl_now = 0
    /\ rl_hist = [k \in RateKeys |-> [created |-> -1, checks |-> 0]]
    /\ rl_last = [op |-> "none"]

RetrySpecInit == RetryInit /\ DedupParked /\ DeliverInit /\ QueueInit /\ FingerprintParked /\ PriorityInit /\ BatchParked /\ GeoInit /\ RaceInit

SpecRetry == RetrySpecInit /\ [][RateLimitNext]_vars

\* C33: the retry metadata is sufficient.  For every denied check, the one
\* that starts a block included, the instant retry_after seconds after the
\* check is not before the end of the block that denied it, so a caller that
\* waits retry_after seconds is not denied again by that block.
RetryAfterCoversBlock ==
    (rl_last.op = "check" /\ ~rl_last.allowed /\ rl_last.key \in DOMAIN blocked) =>
        rl_last.at + rl_last.retry_after * TicksPerSec >= blocked[rl_last.key]

\* The buffer holds items, fewer than batch_size, that have waited longer than
\* flush_interval, and no add call is in progress.
OverdueItemsWait ==
    /\ NoAddInProgress
    /\ buffer # <<>>
    /\ Len(buffer) < bp_config.batch_size
    /\ bp_now - last_flush > bp_config.flush_interval

\* C34: BatchProcessor has no background timer.  Only the body of an add call
\* takes items out of the buffer or hands a batch to the handler: a step that
\* appends nothing, the passing of time in particular, leaves the buffer, the
\* flush clock and the handed batches as they are.  So items that wait below
\* batch_size stay in the buffer, however overdue, until another add arrives.
OnlyAddFlushes ==
    /\ [][bp_added' = bp_added =>
              /\ buffer' = buffer
              /\ last_flush' = last_flush
              /\ bp_handled' = bp_handled]_vars
    /\ [][(OverdueItemsWait /\ bp_now' > bp_now) =>
              /\ OverdueItemsWait'
              /\ buffer' = buffer]_vars

\* One item was added at time 0 with batch_size 2 and flush_interval 1; the
\* clock has run to its bound and the item is still in the buffer, never
\* handed to the handler.
OnlyAddFlushesWitness ==
    /\ OverdueItemsWait
    /\ bp_config.process_func
    /\ bp_now = MaxBatchTicks
    /\ bp_now - last_flush > bp_config.flush_interval + 1
    /\ bp_handled = <<>>
    /\ bp_added = buffer

\* The items of a sequence.
Items(s) == {s[i] : i \in 1..Len(s)}

\* C35: when the flush handler raises, the fault reaches the caller of add
\* (that add call ends), the lock is released, and the items of the failed
\* batch are not in the buffer; no handed batch shares an item with the buffer
\* or with another handed batch, so the failed items are never handed to the
\* handler again.
HandlerFaultDropsBatch ==
    /\ [][bp_faults' = bp_faults + 1 =>
              LET failed == bp_handled'[Len(bp_handled')] IN
              /\ lock' = Unlocked
              /\ \E w \in BatchProducers : /\ bp_pc'[w] = "idle"
                                           /\ \/ bp_pc[w] = "handler"
                                              \/ bp_added'[Len(bp_added')] \in Items(failed)
              /\ Items(failed) \cap Items(buffer') = {}
              /\ failed # <<>>]_vars
    /\ [](\A i \in 1..Len(bp_handled) :
            /\ Items(bp_handled[i]) \cap Items(buffer) = {}
            /\ \A j \in 1..Len(bp_handled) :
                 i # j => Items(bp_handled[i]) \cap Items(bp_handled[j]) = {})

\* The one flush so far failed, and an add call made afterwards went through:
\* its item is in the buffer, the failed items are not, and the lock is free.
HandlerFaultDropsBatchWitness ==
    /\ bp_faults = 1
    /\ Len(bp_handled) = 1
    /\ lock = Unlocked
    /\ NoAddInProgress
    /\ bp_last.valid
    /\ ~bp_last.flushed
    /\ buffer = <<bp_last.item>>
    /\ bp_added = bp_handled[1] \o buffer

====
